---- MODULE Spec2Model ----
(***************************************************************************)
(* Cat's EMU DS (src/program.py): the frame scheduler and the cross-thread *)
(* presentation pipeline of class CatsEmuDS.                               *)
(*                                                                         *)
(* Two execution contexts share the object's fields without any lock:      *)
(*   - the UI thread (Tk main loop): menu/key commands, input events and   *)
(*     the self re-arming display tick; its handlers run one at a time and *)
(*     pcUI is the position inside the handler in progress;                *)
(*   - the Frame Pump thread (_emulation_loop); pcPump is its position.    *)
(* A handler is cut into steps only where it reads or writes a field the   *)
(* other thread also touches, or where it sits inside a call into the      *)
(* emulator core (a ctypes call, during which the other thread runs).      *)
(* "self.x += 1" is a load followed by a store.                            *)
(***************************************************************************)
EXTENDS Integers, FiniteSets, Sequences, TLC

\* ---------------------------------------------------------------- bounds
MaxFrames == 2
MaxPaths == 2

\* ------------------------------------------------------ program constants
DS_WIDTH == 256
DS_HEIGHT == 192
None == 0

Paths == 1..MaxPaths
\* key_map, restricted to two of its twelve entries
Keys == {"z", "x"}
key_map == [k \in Keys |-> IF k = "z" THEN "A" ELSE "B"]
\* the Size menu's radio buttons
Scales == {1, 2, 3}
\* pointer positions delivered by Tk to the bottom screen canvas
EventXs == {-1, 255, 768}
EventYs == {-1, 191, 576}
Released == <<>>

VARIABLES
    emu,              \* self.emu is not None (the core object exists)
    destroyed,        \* emu.destroy() has been called
    rom_path,         \* self.rom_path (None or a path)
    running,          \* self.running
    starts,           \* how many times _start_emulation_thread has started a pump
                      \* thread and a tick chain (counted up to 2)
    paused,           \* self.paused
    frame_count,      \* self.frame_count
    fps_frame_count,  \* self.fps_frame_count
    fps,              \* frames counted in the last FPS sample (self.fps numerator)
    state_label,      \* text of self.state_label
    frame_label,      \* number shown by self.frame_label
    screen_scale,     \* self.screen_scale
    keys,             \* the core's held-button set (emu.input keypad)
    touch,            \* the core's touch state: Released or <<x, y>>
    coreFault,        \* the core's cycle() currently raises
    buffer,           \* what the last display read got: "none", "whole", "torn",
                      \* or "fault" (the read or the rendering raised)
    tickArmed,        \* a window.after(16, _schedule_display_update) is pending
    pcUI,             \* position of the UI thread
    upath,            \* load_rom's argument while it is inside emu.open
    was_running,      \* load_rom's local was_running while it is inside emu.open
    ufc,              \* frame_advance's loaded frame_count
    pcPump,           \* position of the Frame Pump thread
    pfc,              \* the pump's loaded frame_count
    pfps,             \* the pump's loaded fps_frame_count
    \* ---- observation (history) variables, read by no action's guard
    win,              \* "pause": pause_emulation returned while Running, and no
                      \* run/step/reset/load since; "load": load_rom succeeded,
                      \* and no run/step since; else "none"
    fcChanges,        \* changes of frame_count in the "pause" window (capped at 2)
    stepBase,         \* frame_count when the frame_advance in progress was called
    faulted,          \* the pump caught a cycle() fault, no session command since
    ignored,          \* the command last ignored for lack of a ROM, since the
                      \* last close_rom or load ("none" when there is none)
    keyEdge,          \* per key: "up", "fresh" (pressed, no cycle() begun since),
                      \* "down", "tapped" (released while fresh), "tapped_seen"
                      \* (a cycle() has begun since the tap, and not yet ended)
    lastTouch,        \* what the last touch event did: "none", "set", "dropped"
                      \* (out of bounds), "released"
    fpsDrift          \* the frames counted by the FPS samples taken so far, plus
                      \* fps_frame_count, minus the cycle() calls of the pump that
                      \* have returned (kept within -MaxFrames..MaxFrames)

vars == <<emu, destroyed, rom_path, running, starts, paused, frame_count, fps_frame_count,
          fps, state_label, frame_label, screen_scale, keys, touch, coreFault,
          buffer, tickArmed, pcUI, upath, was_running, ufc, pcPump, pfc,
          pfps, win, fcChanges, stepBase, faulted, ignored, keyEdge, lastTouch,
          fpsDrift>>

coreVars == <<emu, destroyed, keys, touch, coreFault>>
obsVars == <<win, fcChanges, faulted, ignored>>
inObs == <<keyEdge, lastTouch>>
labelVars == <<state_label, frame_label>>
pumpVars == <<pcPump, pfc, pfps>>
uiLocals == <<upath, was_running, ufc, stepBase>>
fpsVars == <<fps_frame_count, fps, fpsDrift>>

\* ------------------------------------------------------------------ Init
\* __init__ (lines 90-117) and _build_status_bar (the labels' first texts).
\* EMU_AVAILABLE decides whether a core object exists.
Init ==
    /\ emu \in BOOLEAN
    /\ destroyed = FALSE
    /\ rom_path = None
    /\ running = FALSE
    /\ starts = 0
    /\ paused = TRUE
    /\ frame_count = 0
    /\ fps_frame_count = 0
    /\ fps = 0
    /\ state_label = "STOPPED"
    /\ frame_label = 0
    /\ screen_scale = 2
    /\ keys = {}
    /\ touch = Released
    /\ coreFault = FALSE
    /\ buffer = "none"
    /\ tickArmed = FALSE
    /\ pcUI = "idle"
    /\ upath = None
    /\ was_running = FALSE
    /\ ufc = 0
    /\ pcPump = "off"
    /\ pfc = 0
    /\ pfps = 0
    /\ win = "none"
    /\ fcChanges = 0
    /\ stepBase = 0
    /\ faulted = FALSE
    /\ ignored = "none"
    /\ keyEdge = [k \in Keys |-> "up"]
    /\ lastTouch = "none"
    /\ fpsDrift = 0

\* --------------------------------------------------------------- helpers
\* the pump thread is inside emu.cycle()
PumpInCycle == pcPump = "cycle"

\* emu.display_buffer_as_rgbx() followed by Image.frombytes: the copy of the
\* core's display buffer.  While the pump is inside cycle() the core is
\* rewriting that buffer, so the copy may mix two frames.  Any statement of the
\* try block (629-655) may raise: "fault".
ReadBuffer == IF PumpInCycle THEN {"whole", "torn", "fault"} ELSE {"whole", "fault"}

\* _update_display (625-658): nothing without a ROM or a core; a fault is
\* caught inside it (657-658)
UpdateDisplay(b) ==
    IF rom_path # None /\ emu
    THEN buffer' = b
    ELSE buffer' = buffer

\* fpsDrift after a change d, kept within the model's range
Drift(d) ==
    IF fpsDrift + d > MaxFrames THEN MaxFrames
    ELSE IF fpsDrift + d < 0 - MaxFrames THEN 0 - MaxFrames
    ELSE fpsDrift + d

\* a session command that takes effect: the observation window after it
Window(w) ==
    /\ win' = w
    /\ fcChanges' = 0
    /\ faulted' = FALSE

\* ------------------------------------------------- Session Controller (UI)
\* load_rom (508-554), up to the call of emu.open.  isfile is os.path.isfile(path).
load_rom(path, isfile) ==
    /\ pcUI = "idle"
    /\ IF ~isfile \/ ~emu
       THEN \* lines 510-522: report and return False
            UNCHANGED <<paused, state_label, pcUI, upath, was_running, win,
                        fcChanges, faulted>>
       ELSE \* lines 526-528: was_running, pause_emulation()
            /\ was_running' = (running /\ ~paused)
            /\ paused' = IF running /\ ~paused THEN TRUE ELSE paused
            /\ state_label' = IF running /\ ~paused THEN "PAUSED" ELSE state_label
            /\ pcUI' = "load_open"
            /\ upath' = path
            /\ Window("none")
    /\ UNCHANGED <<coreVars, rom_path, running, starts, frame_count, fpsVars, frame_label,
                   screen_scale, buffer, tickArmed, ufc, stepBase, pumpVars, ignored,
                   inObs>>

\* load_rom that calls a _start_emulation_thread without its "if self.running:
\* return" on every successful load: a second pump thread and tick chain
load_rom_open_always_starts(ok) ==
    /\ pcUI = "load_open"
    /\ pcUI' = "idle"
    /\ upath' = None
    /\ was_running' = FALSE
    /\ IF ok
       THEN /\ rom_path' = upath
            /\ frame_count' = 0
            /\ fps' = 0
            /\ state_label' = "PAUSED"
            /\ win' = "load" /\ fcChanges' = 0 /\ faulted' = FALSE
            /\ ignored' = "none"
            /\ running' = TRUE
            /\ starts' = IF starts < 2 THEN starts + 1 ELSE starts
            /\ pcPump' = IF pcPump = "off" THEN "loop" ELSE pcPump
            /\ buffer' = "whole"
            /\ tickArmed' = TRUE
       ELSE UNCHANGED <<rom_path, frame_count, fps, state_label, running, starts,
                        pcPump, buffer, tickArmed, obsVars>>
    /\ UNCHANGED <<coreVars, paused, fps_frame_count, fpsDrift, frame_label,
                   screen_scale, ufc, stepBase, pfc, pfps, inObs>>

\* load_rom, from the return of emu.open (531) to the end (554).  ok = FALSE is
\* emu.open raising.  The first load starts the pump thread and, inside
\* _start_emulation_thread, runs the first display tick (575-585, 614-623):
\* the pump has not run yet, fps_frame_count and the frame label are still 0.
load_rom_open(ok) ==
    /\ pcUI = "load_open"
    /\ pcUI' = "idle"
    /\ upath' = None
    /\ was_running' = FALSE
    /\ IF ok
       THEN /\ rom_path' = upath
            /\ frame_count' = 0
            /\ fps' = 0
            /\ state_label' = "PAUSED"
            /\ Window("load")
            /\ ignored' = "none"
            /\ IF ~running
               THEN /\ running' = TRUE
                    /\ starts' = IF starts < 2 THEN starts + 1 ELSE starts
                    /\ pcPump' = "loop"
                    /\ buffer' = "whole"
                    /\ tickArmed' = TRUE
               ELSE UNCHANGED <<running, starts, pcPump, buffer, tickArmed>>
       ELSE UNCHANGED <<rom_path, frame_count, fps, state_label, running, starts, pcPump,
                        buffer, tickArmed, obsVars>>
    /\ UNCHANGED <<coreVars, paused, fps_frame_count, fpsDrift, frame_label,
                   screen_scale, ufc, stepBase, pfc, pfps, inObs>>

\* close_rom that forgets self.paused = True
close_rom_keeps_flag ==
    /\ pcUI = "idle"
    /\ rom_path' = None
    /\ state_label' = "STOPPED"
    /\ faulted' = FALSE
    /\ ignored' = "none"
    /\ UNCHANGED <<coreVars, running, starts, paused, frame_count, fpsVars, frame_label,
                   screen_scale, buffer, tickArmed, pcUI, uiLocals, pumpVars, win,
                   fcChanges, inObs>>

\* close_rom (556-569)
close_rom ==
    /\ pcUI = "idle"
    /\ paused' = TRUE
    /\ rom_path' = None
    /\ state_label' = "STOPPED"
    /\ faulted' = FALSE
    /\ ignored' = "none"
    /\ UNCHANGED <<coreVars, running, starts, frame_count, fpsVars, frame_label, screen_scale,
                   buffer, tickArmed, pcUI, uiLocals, pumpVars, win, fcChanges, inObs>>

\* run_emulation without the "Load a ROM first!" guard
run_emulation_unguarded ==
    /\ pcUI = "idle"
    /\ paused' = FALSE
    /\ state_label' = "RUNNING"
    /\ Window("none")
    /\ UNCHANGED <<coreVars, rom_path, running, starts, frame_count, fpsVars, frame_label,
                   screen_scale, buffer, tickArmed, pcUI, uiLocals, pumpVars, ignored,
                   inObs>>

\* run_emulation (673-683)
run_emulation ==
    /\ pcUI = "idle"
    /\ IF rom_path = None
       THEN /\ ignored' = "run"
            /\ UNCHANGED <<paused, state_label, win, fcChanges, faulted>>
       ELSE /\ paused' = FALSE
            /\ state_label' = "RUNNING"
            /\ Window("none")
            /\ UNCHANGED ignored
    /\ UNCHANGED <<coreVars, rom_path, running, starts, frame_count, fpsVars, frame_label,
                   screen_scale, buffer, tickArmed, pcUI, uiLocals, pumpVars, inObs>>

\* pause_emulation (685-691)
pause_emulation ==
    /\ pcUI = "idle"
    /\ paused' = TRUE
    /\ state_label' = "PAUSED"
    /\ faulted' = FALSE
    /\ IF running /\ ~paused
       THEN win' = "pause" /\ fcChanges' = 0
       ELSE UNCHANGED <<win, fcChanges>>
    /\ UNCHANGED <<coreVars, rom_path, running, starts, frame_count, fpsVars, frame_label,
                   screen_scale, buffer, tickArmed, pcUI, uiLocals, pumpVars, ignored,
                   inObs>>

\* reset_emulation (693-698): the guard and the entry into emu.reset()
reset_emulation ==
    /\ pcUI = "idle"
    /\ IF emu /\ rom_path # None
       THEN /\ pcUI' = "reset_core"
            /\ win' = IF win = "pause" THEN "none" ELSE win
            /\ fcChanges' = 0
            /\ faulted' = FALSE
            /\ UNCHANGED ignored
       ELSE /\ ignored' = "reset"
            /\ UNCHANGED <<pcUI, win, fcChanges, faulted>>
    /\ UNCHANGED <<coreVars, rom_path, running, starts, paused, frame_count, fpsVars,
                   labelVars, screen_scale, buffer, tickArmed, uiLocals, pumpVars,
                   inObs>>

\* reset_emulation: emu.reset() returns, self.frame_count = 0 (697)
reset_emulation_store ==
    /\ pcUI = "reset_core"
    /\ frame_count' = 0
    /\ pcUI' = "reset_ret"
    /\ UNCHANGED <<coreVars, rom_path, running, starts, paused, fpsVars, labelVars,
                   screen_scale, buffer, tickArmed, uiLocals, pumpVars, obsVars, inObs>>

\* reset_emulation: _set_status("Reset") and return (698)
reset_emulation_ret ==
    /\ pcUI = "reset_ret"
    /\ pcUI' = "idle"
    /\ UNCHANGED <<coreVars, rom_path, running, starts, paused, frame_count, fpsVars,
                   labelVars, screen_scale, buffer, tickArmed, uiLocals, pumpVars,
                   obsVars, inObs>>

\* keyEdge when some thread enters / leaves emu.cycle()
CycleBegins(e) ==
    [k \in Keys |-> IF e[k] = "fresh" THEN "down"
                    ELSE IF e[k] = "tapped" THEN "tapped_seen" ELSE e[k]]
CycleEnds(e) ==
    [k \in Keys |-> IF e[k] = "tapped_seen" THEN "up" ELSE e[k]]

\* frame_advance (700-708): the guard, self.paused = True, entry into emu.cycle().
\* MaxFrames bounds the model.
frame_advance ==
    /\ pcUI = "idle"
    /\ IF emu /\ rom_path # None
       THEN /\ frame_count < MaxFrames
            /\ paused' = TRUE
            /\ pcUI' = "step_cycle"
            /\ stepBase' = frame_count
            /\ keyEdge' = CycleBegins(keyEdge)
            /\ Window("none")
            /\ UNCHANGED ignored
       ELSE /\ ignored' = "step"
            /\ UNCHANGED <<paused, pcUI, stepBase, keyEdge, win, fcChanges, faulted>>
    /\ UNCHANGED <<coreVars, rom_path, running, starts, frame_count, fpsVars, labelVars,
                   screen_scale, buffer, tickArmed, upath, was_running, ufc, pumpVars,
                   lastTouch>>

\* frame_advance whose emu.cycle() waits for the pump to leave its own cycle()
frame_advance_cycle_locked ==
    /\ pcUI = "step_cycle"
    /\ ~(pcPump = "cycle")
    /\ keyEdge' = [k \in Keys |-> IF keyEdge[k] = "tapped_seen" THEN "up"
                                   ELSE keyEdge[k]]
    /\ IF coreFault
       THEN /\ pcUI' = "idle"
            /\ stepBase' = 0
            /\ UNCHANGED ufc
       ELSE /\ pcUI' = "step_store"
            /\ ufc' = frame_count
            /\ UNCHANGED stepBase
    /\ UNCHANGED <<coreVars, rom_path, running, starts, paused, frame_count, fpsVars,
                   labelVars, screen_scale, buffer, tickArmed, upath, was_running,
                   pumpVars, obsVars, lastTouch>>

\* frame_advance: emu.cycle() returns or raises (704); on return the load of
\* self.frame_count for "+= 1" (705).  A raise leaves the handler.
frame_advance_cycle ==
    /\ pcUI = "step_cycle"
    /\ keyEdge' = CycleEnds(keyEdge)
    /\ IF coreFault
       THEN /\ pcUI' = "idle"
            /\ stepBase' = 0
            /\ UNCHANGED ufc
       ELSE /\ pcUI' = "step_store"
            /\ ufc' = frame_count
            /\ UNCHANGED stepBase
    /\ UNCHANGED <<coreVars, rom_path, running, starts, paused, frame_count, fpsVars,
                   labelVars, screen_scale, buffer, tickArmed, upath, was_running,
                   pumpVars, obsVars, lastTouch>>

\* frame_advance: the store of self.frame_count (705)
frame_advance_store ==
    /\ pcUI = "step_store"
    /\ frame_count' = ufc + 1
    /\ ufc' = 0
    /\ pcUI' = "step_display"
    /\ UNCHANGED <<coreVars, rom_path, running, starts, paused, fpsVars, labelVars,
                   screen_scale, buffer, tickArmed, upath, was_running, stepBase,
                   pumpVars, obsVars, inObs>>

\* frame_advance: _update_display(), status, indicator, return (706-708)
frame_advance_display(b) ==
    /\ pcUI = "step_display"
    /\ UpdateDisplay(b)
    /\ state_label' = "PAUSED"
    /\ pcUI' = "idle"
    /\ stepBase' = 0
    /\ UNCHANGED <<coreVars, rom_path, running, starts, paused, frame_count, fpsVars,
                   frame_label, screen_scale, tickArmed, upath, was_running, ufc,
                   pumpVars, obsVars, inObs>>

\* _on_close (1098-1106): the window is destroyed, no UI event follows
on_close ==
    /\ pcUI = "idle"
    /\ running' = FALSE
    /\ destroyed' = emu
    /\ tickArmed' = FALSE
    /\ pcUI' = "closed"
    /\ faulted' = FALSE
    /\ UNCHANGED <<emu, keys, touch, coreFault, rom_path, starts, paused,
                   frame_count, fpsVars, labelVars, screen_scale, buffer, uiLocals,
                   pumpVars, win, fcChanges, ignored, inObs>>

\* ------------------------------------------------- Presentation Scheduler
\* _schedule_display_update in which a fault of _update_display is not caught:
\* the handler is left before window.after
schedule_display_update_fault_escapes(b, elapsed) ==
    /\ pcUI = "idle"
    /\ tickArmed
    /\ IF ~running
       THEN /\ tickArmed' = FALSE
            /\ UNCHANGED <<buffer, fps, pcUI>>
       ELSE /\ UpdateDisplay(b)
            /\ IF b = "fault" /\ rom_path # None /\ emu
               THEN /\ tickArmed' = FALSE
                    /\ UNCHANGED <<fps, pcUI>>
               ELSE IF elapsed
                    THEN /\ fps' = fps_frame_count
                         /\ pcUI' = "fps_reset"
                         /\ tickArmed' = FALSE
                    ELSE UNCHANGED <<fps, pcUI, tickArmed>>
    /\ fpsDrift' = IF pcUI' = "fps_reset" THEN Drift(fps_frame_count) ELSE fpsDrift
    /\ UNCHANGED <<coreVars, rom_path, running, starts, paused, frame_count, fps_frame_count,
                   labelVars, screen_scale, uiLocals, pumpVars, obsVars, inObs>>

\* _schedule_display_update (614-623) with _update_display (625-658) and the
\* first half of _update_fps (660-666).  elapsed is "now - fps_timer >= 1.0".
schedule_display_update(b, elapsed) ==
    /\ pcUI = "idle"
    /\ tickArmed
    /\ IF ~running
       THEN /\ tickArmed' = FALSE
            /\ UNCHANGED <<buffer, fps, pcUI>>
       ELSE /\ UpdateDisplay(b)
            /\ IF elapsed
               THEN /\ fps' = fps_frame_count
                    /\ pcUI' = "fps_reset"
                    /\ tickArmed' = FALSE
               ELSE UNCHANGED <<fps, pcUI, tickArmed>>
    /\ fpsDrift' = IF running /\ elapsed THEN Drift(fps_frame_count) ELSE fpsDrift
    /\ UNCHANGED <<coreVars, rom_path, running, starts, paused, frame_count, fps_frame_count,
                   labelVars, screen_scale, uiLocals, pumpVars, obsVars, inObs>>

\* _update_fps: self.fps_frame_count = 0, the two labels (667-671), then the
\* re-arming window.after (623)
update_fps_reset ==
    /\ pcUI = "fps_reset"
    /\ fps_frame_count' = 0
    /\ fpsDrift' = Drift(0 - fps_frame_count)
    /\ frame_label' = frame_count
    /\ tickArmed' = TRUE
    /\ pcUI' = "idle"
    /\ UNCHANGED <<coreVars, rom_path, running, starts, paused, frame_count, fps, state_label,
                   screen_scale, buffer, uiLocals, pumpVars, obsVars, inObs>>

\* ------------------------------------------------------------ Frame Pump
\* _emulation_loop whose if test forgets "not self.paused"
emulation_loop_ignores_pause ==
    /\ pcPump = "loop"
    /\ IF ~running
       THEN /\ pcPump' = "exited"
            /\ UNCHANGED keyEdge
       ELSE IF rom_path # None /\ emu
               /\ frame_count < MaxFrames /\ fps_frame_count < MaxFrames
            THEN /\ pcPump' = "cycle"
                 /\ keyEdge' = CycleBegins(keyEdge)
            ELSE UNCHANGED <<pcPump, keyEdge>>
    /\ UNCHANGED <<coreVars, rom_path, running, starts, paused, frame_count, fpsVars,
                   labelVars, screen_scale, buffer, tickArmed, pcUI, uiLocals, pfc,
                   pfps, obsVars, lastTouch>>

\* _emulation_loop whose while test is "while True"
emulation_loop_ignores_running ==
    /\ pcPump = "loop"
    /\ IF ~paused /\ rom_path # None /\ emu
          /\ frame_count < MaxFrames /\ fps_frame_count < MaxFrames
       THEN /\ pcPump' = "cycle"
            /\ keyEdge' = CycleBegins(keyEdge)
       ELSE UNCHANGED <<pcPump, keyEdge>>
    /\ UNCHANGED <<coreVars, rom_path, running, starts, paused, frame_count, fpsVars,
                   labelVars, screen_scale, buffer, tickArmed, pcUI, uiLocals, pfc,
                   pfps, obsVars, lastTouch>>

\* _emulation_loop (587-612): the while test, the if test and either the entry
\* into emu.cycle() or the idle sleep.  MaxFrames bounds both counters.
emulation_loop ==
    /\ pcPump = "loop"
    /\ IF ~running
       THEN /\ pcPump' = "exited"
            /\ UNCHANGED keyEdge
       ELSE IF ~paused /\ rom_path # None /\ emu
               /\ frame_count < MaxFrames /\ fps_frame_count < MaxFrames
            THEN /\ pcPump' = "cycle"
                 /\ keyEdge' = CycleBegins(keyEdge)
            ELSE UNCHANGED <<pcPump, keyEdge>>
    /\ UNCHANGED <<coreVars, rom_path, running, starts, paused, frame_count, fpsVars,
                   labelVars, screen_scale, buffer, tickArmed, pcUI, uiLocals, pfc,
                   pfps, obsVars, lastTouch>>

\* emu.cycle() returns or raises (598).  A raise: self.paused = True, continue
\* (601-604).  A return: the load of self.frame_count for "+= 1" (599).
emulation_loop_cycle ==
    /\ pcPump = "cycle"
    /\ keyEdge' = CycleEnds(keyEdge)
    /\ IF coreFault
       THEN /\ paused' = TRUE
            /\ faulted' = TRUE
            /\ pcPump' = "loop"
            /\ UNCHANGED <<pfc, fpsDrift>>
       ELSE /\ pfc' = frame_count
            /\ pcPump' = "fc_store"
            /\ fpsDrift' = Drift(0 - 1)
            /\ UNCHANGED <<paused, faulted>>
    /\ UNCHANGED <<coreVars, rom_path, running, starts, frame_count, fps_frame_count,
                   fps, labelVars,
                   screen_scale, buffer, tickArmed, pcUI, uiLocals, pfps, win,
                   fcChanges, ignored, lastTouch>>

\* the store of self.frame_count (599)
emulation_loop_fc_store ==
    /\ pcPump = "fc_store"
    /\ frame_count' = pfc + 1
    /\ pfc' = 0
    /\ pcPump' = "fps_load"
    /\ fcChanges' = IF win = "pause" /\ frame_count' # frame_count /\ fcChanges < 2
                    THEN fcChanges + 1 ELSE fcChanges
    /\ UNCHANGED <<coreVars, rom_path, running, starts, paused, fpsVars, labelVars,
                   screen_scale, buffer, tickArmed, pcUI, uiLocals, pfps, win,
                   faulted, ignored, inObs>>

\* the load of self.fps_frame_count for "+= 1" (600)
emulation_loop_fps_load ==
    /\ pcPump = "fps_load"
    /\ pfps' = fps_frame_count
    /\ pcPump' = "fps_store"
    /\ UNCHANGED <<coreVars, rom_path, running, starts, paused, frame_count, fpsVars,
                   labelVars, screen_scale, buffer, tickArmed, pcUI, uiLocals, pfc,
                   obsVars, inObs>>

\* the store of self.fps_frame_count (600), the frame pacing sleep (607-609)
emulation_loop_fps_store ==
    /\ pcPump = "fps_store"
    /\ fps_frame_count' = pfps + 1
    /\ fpsDrift' = Drift(pfps + 1 - fps_frame_count)
    /\ pfps' = 0
    /\ pcPump' = "loop"
    /\ UNCHANGED <<coreVars, rom_path, running, starts, paused, frame_count, fps, labelVars,
                   screen_scale, buffer, tickArmed, pcUI, uiLocals, pfc, obsVars,
                   inObs>>

\* the external core starts or stops failing in cycle() (the except of 601)
core_fault_toggle ==
    /\ emu
    /\ coreFault' = ~coreFault
    /\ UNCHANGED <<emu, destroyed, keys, touch, rom_path, running, starts, paused,
                   frame_count, fpsVars, labelVars, screen_scale, buffer, tickArmed,
                   pcUI, uiLocals, pumpVars, obsVars, inObs>>

\* ---------------------------------------------------------- Input Router
\* _on_key_press (779-790)
on_key_press(k) ==
    /\ pcUI = "idle"
    /\ keyEdge' = [keyEdge EXCEPT ![k] = "fresh"]
    /\ IF ~emu \/ rom_path = None
       THEN /\ ignored' = "key"
            /\ UNCHANGED keys
       ELSE /\ keys' = keys \cup {key_map[k]}
            /\ UNCHANGED ignored
    /\ UNCHANGED <<emu, destroyed, touch, coreFault, rom_path, running, starts, paused,
                   frame_count, fpsVars, labelVars, screen_scale, buffer, tickArmed,
                   pcUI, uiLocals, pumpVars, win, fcChanges, faulted, lastTouch>>

\* _on_key_release (792-803)
on_key_release(k) ==
    /\ pcUI = "idle"
    /\ keyEdge' = [keyEdge EXCEPT ![k] = IF @ = "fresh" THEN "tapped" ELSE "up"]
    /\ IF ~emu \/ rom_path = None
       THEN UNCHANGED keys
       ELSE keys' = keys \ {key_map[k]}
    /\ UNCHANGED <<emu, destroyed, touch, coreFault, rom_path, running, starts, paused,
                   frame_count, fpsVars, labelVars, screen_scale, buffer, tickArmed,
                   pcUI, uiLocals, pumpVars, obsVars, lastTouch>>

\* the bounds test with the right edges included
InBounds_inclusive(x, y) == 0 <= x /\ x <= DS_WIDTH /\ 0 <= y /\ y <= DS_HEIGHT

\* the bounds test of line 814
InBounds(x, y) == 0 <= x /\ x < DS_WIDTH /\ 0 <= y /\ y < DS_HEIGHT

\* event.x // scale (811-812): Python's floor division
Scaled(e, scale) == e \div scale

\* _on_touch_start (805-818)
on_touch_start(ex, ey) ==
    /\ pcUI = "idle"
    /\ IF ~emu \/ rom_path = None
       THEN UNCHANGED <<touch, lastTouch>>
       ELSE IF InBounds(Scaled(ex, screen_scale), Scaled(ey, screen_scale))
            THEN /\ touch' = <<Scaled(ex, screen_scale), Scaled(ey, screen_scale)>>
                 /\ lastTouch' = "set"
            ELSE /\ lastTouch' = "dropped"
                 /\ UNCHANGED touch
    /\ UNCHANGED <<emu, destroyed, keys, coreFault, rom_path, running, starts, paused,
                   frame_count, fpsVars, labelVars, screen_scale, buffer, tickArmed,
                   pcUI, uiLocals, pumpVars, obsVars, keyEdge>>

\* _on_touch_move (820-822)
on_touch_move(ex, ey) == on_touch_start(ex, ey)

\* _on_touch_end (824-830)
on_touch_end ==
    /\ pcUI = "idle"
    /\ IF emu
       THEN touch' = Released /\ lastTouch' = "released"
       ELSE UNCHANGED <<touch, lastTouch>>
    /\ UNCHANGED <<emu, destroyed, keys, coreFault, rom_path, running, starts, paused,
                   frame_count, fpsVars, labelVars, screen_scale, buffer, tickArmed,
                   pcUI, uiLocals, pumpVars, obsVars, keyEdge>>

\* the Size menu's radio buttons set screen_scale (216-222)
resize_screen(s) ==
    /\ pcUI = "idle"
    /\ screen_scale' = s
    /\ UNCHANGED <<coreVars, rom_path, running, starts, paused, frame_count, fpsVars,
                   labelVars, buffer, tickArmed, pcUI, uiLocals, pumpVars, obsVars,
                   inObs>>

\* ------------------------------------------------------------------ Next
\* The input handlers write only the core's input state (keys, touch) and
\* screen_scale, which no scheduler step reads, and they read only emu and
\* rom_path.  The scheduler is therefore checked without them (Spec), and the
\* Input Router together with the session commands and the pump that decide
\* what it sees (SpecKeys, SpecTouch).

\* Session Controller commands
Session ==
    \/ \E path \in Paths, isfile \in BOOLEAN : load_rom(path, isfile)
    \/ \E ok \in BOOLEAN : load_rom_open(ok)
    \/ close_rom
    \/ run_emulation
    \/ pause_emulation
    \/ reset_emulation
    \/ reset_emulation_store
    \/ reset_emulation_ret
    \/ frame_advance
    \/ frame_advance_cycle
    \/ frame_advance_store
    \/ \E b \in ReadBuffer : frame_advance_display(b)

\* the Frame Pump thread
Pump ==
    \/ emulation_loop
    \/ emulation_loop_cycle
    \/ emulation_loop_fc_store
    \/ emulation_loop_fps_load
    \/ emulation_loop_fps_store

\* the scheduler: both threads, the display tick, core faults, shutdown.  The
\* once-per-second FPS sample (elapsed = TRUE) writes only fps,
\* fps_frame_count and the frame label, which nothing else reads: it is
\* left to SpecFps.
Next ==
    \/ Session
    \/ Pump
    \/ on_close
    \/ \E b \in ReadBuffer : schedule_display_update(b, FALSE)
    \/ core_fault_toggle

Spec == Init /\ [][Next]_vars

\* the pump is a thread of its own: the operating system keeps scheduling it,
\* its sleeps end and (the claim's assumption) each emu.cycle() returns
SpecPumpFair == Init /\ [][Next]_vars /\ WF_vars(Pump)

\* the steps that take the UI thread from inside a handler to its end
UIContinue ==
    \/ \E ok \in BOOLEAN : load_rom_open(ok)
    \/ reset_emulation_store
    \/ reset_emulation_ret
    \/ frame_advance_cycle
    \/ frame_advance_store
    \/ \E b \in ReadBuffer : frame_advance_display(b)
    \/ update_fps_reset

\* the keypad half of the Input Router
NextKeys ==
    \/ Session
    \/ Pump
    \/ \E k \in Keys : on_key_press(k)
    \/ \E k \in Keys : on_key_release(k)

SpecKeys == Init /\ [][NextKeys]_vars

\* the touch half of the Input Router
NextTouch ==
    \/ \E path \in Paths, isfile \in BOOLEAN : load_rom(path, isfile)
    \/ \E ok \in BOOLEAN : load_rom_open(ok)
    \/ close_rom
    \/ run_emulation
    \/ pause_emulation
    \/ Pump
    \/ \E ex \in EventXs, ey \in EventYs : on_touch_start(ex, ey)
    \/ \E ex \in EventXs, ey \in EventYs : on_touch_move(ex, ey)
    \/ on_touch_end
    \/ \E s \in Scales : resize_screen(s)

SpecTouch == Init /\ [][NextTouch]_vars

\* the FPS accounting: the pump's counter against the tick's sample-and-reset
NextFps ==
    \/ \E path \in Paths, isfile \in BOOLEAN : load_rom(path, isfile)
    \/ \E ok \in BOOLEAN : load_rom_open(ok)
    \/ run_emulation
    \/ pause_emulation
    \/ Pump
    \/ \E b \in ReadBuffer, elapsed \in BOOLEAN : schedule_display_update(b, elapsed)
    \/ update_fps_reset
    \/ on_close

SpecFps == Init /\ [][NextFps]_vars

\* ================================================================ claims
\* ---------------------------------------------------------------- C1
\* C1: a frame_advance (step) that found a ROM has, once its store of
\* frame_count is done and until it returns, paused = TRUE and frame_count
\* exactly one above the value it had when the step was called.
\* (Violated: the frame the pump has in flight is counted as well.)
C1_StepExactlyOne ==
    pcUI = "step_display" => (paused /\ frame_count = stepBase + 1)

\* ---------------------------------------------------------------- C2
\* C2: whenever the run state is not Running (no ROM: Stopped; or the state
\* indicator does not read RUNNING), the paused flag is true.
C2_PausedUnlessRunning ==
    (rom_path = None \/ state_label # "RUNNING") => paused

\* a pause_emulation has run against a running session and taken effect
C2_Witness ==
    win = "pause" /\ rom_path # None /\ state_label = "PAUSED" /\ paused

\* ---------------------------------------------------------------- C3
\* C3: no display read ever returns a buffer the pump was in the middle of
\* writing.  (Violated: the tick reads while the pump is inside cycle().)
C3_NoTornRead == buffer # "torn"

\* ---------------------------------------------------------------- C4
\* C4: after the pump caught a fault of cycle(), and until the next session
\* command, paused is true and the state indicator reports PAUSED, and the
\* pump has not left its loop unless the application is shutting down.
\* (Violated: the indicator still reads RUNNING.)
C4_FaultForcesPaused ==
    faulted => (paused /\ state_label = "PAUSED" /\ (running => pcPump # "exited"))

\* ---------------------------------------------------------------- C5
\* C5 as stated: in the window after a pause_emulation that found the session
\* Running (until the next run, step, reset or load) paused is true, the
\* indicator does not read RUNNING and frame_count does not change.
C5_FrozenAfterPause ==
    win = "pause" => (paused /\ state_label # "RUNNING" /\ fcChanges = 0)

\* C5 as amended: in that window frame_count changes at most once (the store
\* of the frame the pump had in flight when pause_emulation was called).
C5_AtMostInFlightFrame ==
    win = "pause" => (paused /\ state_label # "RUNNING" /\ fcChanges <= 1)

\* the in-flight frame has been stored after pause_emulation returned
C5_Witness == win = "pause" /\ fcChanges = 1 /\ pcUI = "idle"

\* ---------------------------------------------------------------- C6
\* C6: between reset_emulation's store of frame_count and its return,
\* frame_count is 0.  (Violated: the pump's store of a value it loaded before
\* the reset lands in between.)
C6_ResetLeavesZero == pcUI = "reset_ret" => frame_count = 0

\* ---------------------------------------------------------------- C7
\* C7: after a successful load_rom and until the next run or step, paused is
\* true and frame_count is 0.  (Violated: the frame the pump has in flight
\* when a ROM is loaded over a running session is stored after the load.)
C7_LoadLeavesPausedZero == win = "load" => (paused /\ frame_count = 0)

\* ---------------------------------------------------------------- C8
\* C8: close_rom always leaves rom_path cleared and paused true; with no ROM
\* paused is true, and run_emulation, frame_advance, reset_emulation and
\* key presses change neither paused nor frame_count nor the core (its input
\* state is untouched and no call into it is entered).
C8_StoppedIgnoresCommands ==
    /\ [](rom_path = None => paused)
    /\ [][ /\ close_rom => (rom_path' = None /\ paused')
           /\ ( /\ rom_path = None
                /\ \/ run_emulation
                   \/ frame_advance
                   \/ reset_emulation
                   \/ \E k \in Keys : on_key_press(k) )
              => UNCHANGED <<paused, frame_count, keys, touch, pcUI>> ]_vars

\* a ROM was loaded and closed and a command has since been ignored
C8_Witness ==
    rom_path = None /\ running /\ paused /\ ignored \in {"run", "step", "reset", "key"}

\* ---------------------------------------------------------------- C9
\* C9: a button whose key was pressed and released with no cycle() begun in
\* between is not held in the core during the next cycle().
\* (Violated: a release that arrives after close_rom is dropped.)
C9_TapNotHeld ==
    \A k \in Keys : keyEdge[k] = "tapped_seen" => key_map[k] \notin keys

\* ---------------------------------------------------------------- C10
\* C10: the active touch coordinate is always inside 0<=x<256, 0<=y<192; a
\* press or drag whose scaled coordinate is outside leaves the touch state
\* unchanged; a release always leaves it cleared.
C10_TouchInBounds ==
    /\ [](touch # Released =>
            /\ 0 <= touch[1] /\ touch[1] < DS_WIDTH
            /\ 0 <= touch[2] /\ touch[2] < DS_HEIGHT)
    /\ [][ \A ex \in EventXs, ey \in EventYs :
             ( /\ on_touch_start(ex, ey) \/ on_touch_move(ex, ey)
               /\ ~ ( /\ 0 <= ex \div screen_scale /\ ex \div screen_scale < DS_WIDTH
                      /\ 0 <= ey \div screen_scale /\ ey \div screen_scale < DS_HEIGHT ) )
             => touch' = touch ]_vars
    /\ [][ on_touch_end => touch' = Released ]_vars

\* an out-of-bounds press was dropped while an earlier touch is still active
C10_Witness == lastTouch = "dropped" /\ touch # Released

\* ---------------------------------------------------------------- C11
\* C11: no key handler applies an input to the core (keypad_add_key,
\* keypad_rm_key) while the pump thread is inside emu.cycle().
\* (Violated: the handlers take no lock and the pump holds none.)
C11_InputExcludesCycle ==
    [][ ( /\ emu /\ rom_path # None
          /\ \E k \in Keys : on_key_press(k) \/ on_key_release(k) )
        => ~PumpInCycle ]_vars

\* ---------------------------------------------------------------- C12
\* C12: once the core has been destroyed by _on_close the pump thread is not
\* inside emu.cycle().  (Violated: _on_close does not join the pump thread.)
C12_NoCycleOnDestroyedCore == destroyed => ~PumpInCycle

\* ---------------------------------------------------------------- C13
\* C13: the UI thread is never inside emu.open, emu.reset or emu.cycle while
\* the pump thread is inside emu.cycle().
\* (Violated: pausing does not wait for the frame in flight.)
C13_CoreOpsNeverOverlap ==
    ~(pcUI \in {"load_open", "reset_core", "step_cycle"} /\ PumpInCycle)

\* ---------------------------------------------------------------- C14
\* C14: a load_rom that fails (not a file, no core, or emu.open raises) leaves
\* rom_path, frame_count and running as they were, and a session that was
\* Running when it was called is still Running (paused false, indicator
\* RUNNING) when it returns.
\* (Violated: the session was paused before emu.open and is not resumed.)
C14_FailedLoadUnchanged ==
    [][ /\ ( \E path \in Paths : load_rom(path, FALSE) \/ (~emu /\ load_rom(path, TRUE)) )
           => UNCHANGED <<rom_path, frame_count, running, paused, state_label>>
        /\ load_rom_open(FALSE)
           => /\ UNCHANGED <<rom_path, running>>
              /\ was_running => (~paused' /\ state_label' = "RUNNING") ]_vars

\* ---------------------------------------------------------------- C15
\* C15: paused is true whenever running is false.
\* (Violated: _on_close clears running and leaves paused alone.)
C15_PausedWhenNotRunning == ~running => paused

\* ---------------------------------------------------------------- C16
\* C16: no thread waits on the other.  Whatever the pump's position, a UI
\* handler in progress can take its next step and an idle UI thread can start
\* any command, input event, tick or the shutdown; whatever the UI thread's
\* position, a started pump that has not exited can take its next step.
\* (frame_advance is enabled below the model's bound MaxFrames.)
C16_NoWaiting ==
    /\ pcUI \notin {"idle", "closed"} => ENABLED UIContinue
    /\ pcUI = "idle" =>
         /\ \A path \in Paths, isfile \in BOOLEAN : ENABLED load_rom(path, isfile)
         /\ ENABLED close_rom
         /\ ENABLED run_emulation
         /\ ENABLED pause_emulation
         /\ ENABLED reset_emulation
         /\ frame_count < MaxFrames => ENABLED frame_advance
         /\ \A k \in Keys : ENABLED on_key_press(k) /\ ENABLED on_key_release(k)
         /\ \A ex \in EventXs, ey \in EventYs : ENABLED on_touch_start(ex, ey)
         /\ ENABLED on_touch_end
         /\ tickArmed => \A b \in ReadBuffer : ENABLED schedule_display_update(b, FALSE)
         /\ ENABLED on_close
    /\ pcPump \notin {"off", "exited"} => ENABLED Pump

\* the UI thread and the pump thread are inside emu.cycle() at the same time:
\* the state in which a lock would make one of them wait
C16_Witness == pcUI = "step_cycle" /\ PumpInCycle

\* ---------------------------------------------------------------- C17
\* C17: once running is false while a pump thread exists, the pump eventually
\* leaves its loop, from whatever position it was in.
C17_PumpEventuallyExits ==
    (~running /\ pcPump # "off") ~> (pcPump = "exited")

\* the application was shut down while Running and the pump has left its loop
C17_Witness == ~running /\ ~paused /\ frame_count > 0 /\ pcPump = "exited"

\* ---------------------------------------------------------------- C18
\* C18: every display tick of a running application that does not take the
\* once-per-second FPS sample still leaves the frame label showing the
\* current frame_count.
\* (Violated: the label is written only inside the once-per-second branch.)
C18_LabelEveryTick ==
    [][ (running /\ \E b \in ReadBuffer : schedule_display_update(b, FALSE))
        => frame_label' = frame_count' ]_vars

\* ---------------------------------------------------------------- C19
\* C19: frame_count decreases only in the stores of load_rom and
\* reset_emulation that set it to 0.
\* (Violated: a "+= 1" stores a value loaded before the other thread's
\* increments.)
C19_MonotonicFrameCount ==
    [][ frame_count' < frame_count
        => (reset_emulation_store \/ load_rom_open(TRUE)) ]_vars

\* ---------------------------------------------------------------- C20
\* C20: a button is held in the core only if the last edge of its key was a
\* press.  (Violated: a release with no ROM loaded is not applied.)
C20_HeldOnlyIfPressed ==
    \A k \in Keys : key_map[k] \in keys => keyEdge[k] \in {"fresh", "down"}

\* ---------------------------------------------------------------- C21
\* C21: while running is true and the pump has been started, a display tick
\* is pending or in progress (each tick re-arms itself, also the tick whose
\* _update_display raised); once running is false no tick is pending.
C21_TickRearms ==
    /\ []((running /\ pcPump # "off") => (tickArmed \/ pcUI = "fps_reset"))
    /\ [](~running => ~tickArmed)
    /\ [][ (\E elapsed \in BOOLEAN : schedule_display_update("fault", elapsed))
           => (tickArmed' \/ pcUI' = "fps_reset") ]_vars
    /\ [][ update_fps_reset => tickArmed' ]_vars

\* the last _update_display raised, and the tick is armed again
C21_Witness ==
    buffer = "fault" /\ running /\ tickArmed /\ pcUI = "idle" /\ frame_count > 0

\* ---------------------------------------------------------------- C22
\* C22: _start_emulation_thread starts a pump thread and a tick chain at most
\* once: exactly when the first load_rom succeeds; a later load (also after
\* close_rom) and a failed load start nothing.
C22_OnePumpOneTickChain ==
    /\ [](starts <= 1)
    /\ [](starts = 1 <=> pcPump # "off")
    /\ [][ starts' # starts => (starts = 0 /\ load_rom_open(TRUE)) ]_vars
    /\ [][ ( \/ load_rom_open(FALSE)
             \/ \E path \in Paths : load_rom(path, FALSE) \/ (~emu /\ load_rom(path, TRUE)) )
           => UNCHANGED <<starts, running, pcPump, tickArmed>> ]_vars

\* a later load: a ROM was loaded over a running session (the frame the pump
\* had in flight was stored after the load) and the pump was started once
C22_Witness ==
    starts = 1 /\ rom_path = MaxPaths /\ win = "load" /\ ignored = "none" /\ frame_count > 0

\* ---------------------------------------------------------------- C23
\* C23: the pump begins a frame (the test of line 593 and the emu.cycle() it
\* guards, one step of the pump) only while paused is false; pause_emulation
\* and close_rom leave paused true and only run_emulation clears it.  Once a
\* command has set paused, the only cycle() of the pump still to return is
\* therefore the frame it had begun, and it begins none until run_emulation.
C23_NoCycleWhilePaused ==
    /\ [][ (~PumpInCycle /\ PumpInCycle') => (~paused /\ ~paused') ]_vars
    /\ [][ (pause_emulation \/ close_rom) => paused' ]_vars
    /\ [][ (~paused' /\ paused) => run_emulation ]_vars

\* paused was set while the pump was inside cycle(): the frame in flight
C23_Witness == paused /\ PumpInCycle /\ pcUI = "idle" /\ ~faulted /\ state_label = "STOPPED"

\* ---------------------------------------------------------------- C24
\* C24: whenever neither thread is in the middle of its update of
\* fps_frame_count (the pump between the return of cycle() and its store, the
\* tick between its sample and its reset), the frames counted by the FPS
\* samples so far plus fps_frame_count equal the cycle() calls of the pump
\* that have returned.
\* (Violated: the pump's "+= 1" and the tick's sample-and-reset interleave.)
C24_FpsCountsEveryFrame ==
    (pcPump \in {"off", "loop", "cycle", "exited"} /\ pcUI # "fps_reset")
        => fpsDrift = 0

====
